---- MODULE Spec2Model ----
(***************************************************************************)
(* Trade execution and risk gating of Binance_ARDL: the retry decorator    *)
(* (utils/retry.py), OrderManager (execution/order_manager.py), the        *)
(* TradingExecutor handlers (execution/executor.py) and RiskManager        *)
(* (strategy/risk_manager.py).  The venue (exchange) and the state store   *)
(* are constructor arguments of these classes: each of their calls either  *)
(* returns or raises, and the model draws that outcome with \E.            *)
(*                                                                         *)
(* Every `await` of the source is a point where another task may run, so a *)
(* coroutine is cut into one action per stretch of code between awaits; a  *)
(* call to the venue or the store takes effect at the call.                *)
(***************************************************************************)
EXTENDS Integers, Sequences, FiniteSets, TLC

\* ---------------------------------------------------------------- bounds
MaxOrders == 1   \* Order objects the venue accepts in one run
SpareIds == 1    \* further Order objects, for the runs that place a second order
MaxN == 3        \* largest max_attempts given to retry_async
MaxAdds == 3     \* add_signal calls in one run

\* ------------------------------------------------------ program constants
MonitorMaxAttempts == 10   \* _monitor_order: max_attempts = 10
PlaceMaxAttempts == 3      \* @retry_async(max_attempts=3, delay=1) on place_order

Symbols == {"ETH", "BTC"}
Amounts == {1, 2}
OrderIds == 1..(MaxOrders + SpareIds)

\* Failures of a wrapped call, by what str(e) contains.
Errors == {"timeout", "insufficient", "state"}
\* The values a wrapped function returns in the retry_async checks.
Values == {"a", "b"}

NoOrder == [status |-> "none"]
NoPosition == [status |-> "none"]
NoTarget == [side |-> "none"]
IdleEx == [pc |-> "idle"]
NoResp == [status |-> "none"]

VARIABLES
  rt,          \* the running retry_async wrapper (one wrapped call at a time)
  orders,      \* OrderManager.active_orders: id -> Order
  nextId,      \* Order objects registered so far (uuid4 ids, in creation order)
  store,       \* state_manager's persisted order records: id -> record
  venue,       \* the venue's own status of each order it accepted
  mon,         \* the _monitor_order task of each order
  monStarts,   \* create_task(_monitor_order) calls per order
  monCancels,  \* venue cancel requests issued from inside each monitor
  cancelOk,    \* per order: 0, 1 once a cancel_order call returned True,
               \* 2 once a further cancel_order call has completed after that
  positions,   \* PositionManager.positions: symbol -> Position
  posStore,    \* state_manager's persisted position records: symbol -> record
  closeFailed, \* a close_position call has raised "No open position"
  syncSeen,    \* the symbols the latest sync_positions was told are open
               \* on the venue ({"none"} before the first call)
  agg,         \* the SignalAggregator step in progress: its input and result
  exSeen,      \* the signal of the latest observed execute_signal call, with
               \* a tick that flips at each such call
  bot,         \* TradingBot: where stop() stands, the steps it has taken and
               \* whether the venue is connected
  exActive,    \* TradingExecutor._active_orders (the ids it tracks)
  targets,     \* TradingExecutor._position_targets: symbol -> target
  ex,          \* the execute_signal / cancel_all_orders call in progress
  risk,        \* the can_open_position call in progress, or its answer
  opening,     \* per symbol: an open_position call waiting in its
               \* can_open_position, with the count that call has read
  history      \* SignalAggregator.history: the deque, its stats and the
               \* records add_signal was called with, in call order

vars == <<rt, orders, nextId, store, venue, mon, monStarts, monCancels,
          cancelOk, positions, posStore, closeFailed, syncSeen, agg, exSeen, bot,
          exActive, targets, ex, risk, opening, history>>

\* ------------------------------------------------------------ retry_async
\* The wrapper's locals and what it has done so far: `last` is what the
\* latest invocation of the wrapped function did (its value or its
\* exception), `calls` the invocations, `sleeps` the backoff waits,
\* `rejected` whether create_order failed with an error that
\* should_retry_order refuses, `accepted` the orders the venue took.
IdleRt ==
  [state |-> "idle", func |-> "none", max_attempts |-> 0, should_retry |-> "none",
   exceptions |-> {}, attempt |-> 0, calls |-> 0, sleeps |-> 0,
   value |-> "none", error |-> "none", args |-> NoOrder,
   last |-> "none", rejected |-> FALSE, accepted |-> 0]

\* RetryStrategies.order_retry.should_retry_order
should_retry_order(e) == ~(e \in {"insufficient", "invalid", "rejected"})

ShouldRetry(r, e) ==
  IF r.should_retry = "order" THEN should_retry_order(e) ELSE TRUE

\* wrapper: `return await func(*args, **kwargs)` returned v
WrapperOnReturn(r, v) ==
  [r EXCEPT !.state = "returned", !.value = v, !.calls = @ + 1]

\* A wrapper whose check of the attempt budget is off by one: the loop ends
\* without re-raising.
WrapperOnExceptionLoose(r, e) ==
  IF e \notin r.exceptions
    THEN [r EXCEPT !.state = "raised", !.error = e, !.calls = @ + 1]
  ELSE IF r.should_retry # "none" /\ ~ShouldRetry(r, e)
    THEN [r EXCEPT !.state = "raised", !.error = e, !.calls = @ + 1,
                   !.attempt = @ + 1]
  ELSE IF r.attempt + 1 > r.max_attempts
    THEN [r EXCEPT !.state = "raised", !.error = e, !.calls = @ + 1,
                   !.attempt = @ + 1]
  ELSE IF r.attempt + 1 = r.max_attempts
    THEN [r EXCEPT !.state = "returned", !.value = "None", !.calls = @ + 1,
                   !.attempt = @ + 1, !.sleeps = @ + 1]
  ELSE [r EXCEPT !.calls = @ + 1, !.attempt = @ + 1, !.sleeps = @ + 1]

\* wrapper: func raised e.  An exception outside `exceptions` is not caught;
\* a caught one counts an attempt, then is re-raised when should_retry
\* refuses it or the budget is used up, else the wrapper sleeps and loops.
WrapperOnException(r, e) ==
  IF e \notin r.exceptions
    THEN [r EXCEPT !.state = "raised", !.error = e, !.calls = @ + 1]
  ELSE IF r.should_retry # "none" /\ ~ShouldRetry(r, e)
    THEN [r EXCEPT !.state = "raised", !.error = e, !.calls = @ + 1,
                   !.attempt = @ + 1]
  ELSE IF r.attempt + 1 >= r.max_attempts
    THEN [r EXCEPT !.state = "raised", !.error = e, !.calls = @ + 1,
                   !.attempt = @ + 1]
  ELSE [r EXCEPT !.calls = @ + 1, !.attempt = @ + 1, !.sleeps = @ + 1]

UnchangedExecutor ==
  UNCHANGED <<positions, posStore, closeFailed, syncSeen, agg, exSeen, bot,
              exActive, targets, ex, risk, opening, history>>

UnchangedOrders ==
  /\ UNCHANGED <<orders, nextId, store, venue, mon, monStarts, monCancels,
                 cancelOk>>
  /\ UnchangedExecutor

\* A caller invokes a function decorated with retry_async(max_attempts = n).
RetryCall(n, sr, exc) ==
  /\ rt.state = "idle"
  /\ rt' = [IdleRt EXCEPT !.state = "running", !.func = "generic",
                          !.max_attempts = n, !.should_retry = sr,
                          !.exceptions = exc]
  /\ UnchangedOrders

\* One pass of the wrapper's loop over a function that returns v.
RetryAttemptOk(v) ==
  /\ rt.state = "running" /\ rt.func = "generic"
  /\ rt.attempt < rt.max_attempts
  /\ rt' = WrapperOnReturn([rt EXCEPT !.last = v], v)
  /\ UnchangedOrders

\* One pass of the wrapper's loop over a function that raises e.
RetryAttemptFail(e) ==
  /\ rt.state = "running" /\ rt.func = "generic"
  /\ rt.attempt < rt.max_attempts
  /\ rt' = WrapperOnException([rt EXCEPT !.last = e], e)
  /\ UnchangedOrders

\* The caller has taken the wrapper's result.
RetryDone ==
  /\ rt.state \in {"returned", "raised"}
  /\ rt' = IdleRt
  /\ UnchangedOrders

\* ------------------------------------------------------------ OrderManager
VenueErrors == {"timeout", "insufficient"}
FillReports == {1, 2}      \* exchange_orders['filled']
AvgReports == {100}   \* exchange_orders['average']

\* A monitor task: where it stands, its local `attempt` (0 again once the
\* task has ended and the local is gone), the fetch_order answer it is about
\* to resume with, whether it left the loop with the budget used up and
\* the order still pending, the fetch_order requests it has issued and
\* whether one of them raised.
NoMon ==
  [pc |-> "none", attempt |-> 0, resp |-> NoResp, exhausted |-> FALSE,
   fetches |-> 0, faulted |-> FALSE]

\* Order(...) as place_order builds it: status PENDING, nothing filled.
NewOrder(a) ==
  [status |-> "pending", symbol |-> a.symbol, side |-> a.side,
   amount |-> a.amount, price |-> a.price, filled_amount |-> 0,
   average_price |-> 0]

\* The wrapper as place_order starts it for the arguments a.
PlaceOrderStart(a) ==
  [IdleRt EXCEPT !.state = "running", !.func = "place_order",
                 !.max_attempts = PlaceMaxAttempts,
                 !.exceptions = Errors, !.args = a]

\* A caller invokes OrderManager.place_order, that is the retry_async
\* wrapper around it: max_attempts = 3, no should_retry, every Exception.
PlaceOrderCall(a) ==
  /\ rt.state = "idle" /\ ex.pc = "idle"
  /\ rt' = PlaceOrderStart(a)
  /\ UnchangedOrders

\* The caller's code after `await self.order_manager.place_order(...)`, run
\* in the step in which the wrapper ends (r is the wrapper after the
\* attempt, id the order it returns).  An entry handler records a returned
\* order that is not FAILED in _active_orders and _position_targets, an exit
\* handler in _active_orders; an exception ends execute_signal with None.
PlaceContinue(r, id) ==
  IF r.state = "running" \/ rt.args.caller \in {"direct", "flatten"}
    THEN rt' = r /\ UNCHANGED <<exActive, targets, ex>>
    ELSE /\ rt' = IdleRt
         /\ ex' = IdleEx
         /\ IF r.state = "returned"
              THEN /\ exActive' = exActive \cup {id}
                   /\ targets' =
                        IF rt.args.caller = "long_entry"
                          THEN [targets EXCEPT ![rt.args.symbol] =
                                 [side |-> "long", target_size |-> ex.size,
                                  entry_order_id |-> id]]
                        ELSE IF rt.args.caller = "short_entry"
                          THEN [targets EXCEPT ![rt.args.symbol] =
                                 [side |-> "short", target_size |-> ex.size,
                                  entry_order_id |-> id]]
                        ELSE targets
              ELSE UNCHANGED <<exActive, targets>>

\* place_order's body, venue accepted: the order is registered, then saved,
\* then its monitor is started; a failing save_order lands in the
\* `except Exception` (status FAILED, re-raise) with the order registered.
PlaceOrderAccepted(save) ==
  /\ rt.state = "running" /\ rt.func = "place_order"
  /\ nextId < MaxOrders + SpareIds
  /\ LET id == nextId + 1
         o == NewOrder(rt.args)
         r == [rt EXCEPT !.accepted = @ + 1,
                         !.last = IF save = "ok" THEN "order" ELSE "state"]
     IN /\ nextId' = id
        /\ venue' = [venue EXCEPT ![id] = "open"]
        /\ IF save = "ok"
             THEN /\ orders' = [orders EXCEPT ![id] = o]
                  /\ store' = [store EXCEPT ![id] = o]
                  /\ mon' = [mon EXCEPT ![id] = [NoMon EXCEPT !.pc = "loop"]]
                  /\ monStarts' = [monStarts EXCEPT ![id] = @ + 1]
                  /\ PlaceContinue(WrapperOnReturn(r, id), id)
             ELSE /\ orders' = [orders EXCEPT ![id] = [o EXCEPT !.status = "failed"]]
                  /\ PlaceContinue(WrapperOnException(r, "state"), id)
                  /\ UNCHANGED <<store, mon, monStarts>>
  /\ UNCHANGED <<monCancels, cancelOk, positions, posStore, closeFailed, syncSeen, agg, exSeen, bot, risk,
                 opening, history>>

\* place_order's body, exchange.create_order raised e: the local Order gets
\* status FAILED and the exception goes to the wrapper.
PlaceOrderRejected(e) ==
  /\ rt.state = "running" /\ rt.func = "place_order"
  /\ PlaceContinue(
       WrapperOnException(
         [rt EXCEPT !.rejected = @ \/ ~should_retry_order(e), !.last = e], e),
       0)
  /\ UNCHANGED <<orders, nextId, store, venue, mon, monStarts, monCancels,
                 cancelOk, positions, posStore, closeFailed, syncSeen, agg, exSeen, bot, risk,
                 opening, history>>

\* A cancel_order that marks the order FAILED when the venue answers False.
CancelOrdersMarkFailed(id, v) ==
  IF orders[id] = NoOrder \/ v = "raise" THEN orders
  ELSE IF v = "false" THEN [orders EXCEPT ![id].status = "failed"]
  ELSE [orders EXCEPT ![id].status = "cancelled"]

\* cancel_order's effect on active_orders.  The venue's answer v is "ok"
\* (returned True), "false" (returned False) or "raise"; the return value is
\* not looked at, so only a raise keeps the status.
CancelOrders(id, v) ==
  IF orders[id] = NoOrder \/ v = "raise" THEN orders
  ELSE [orders EXCEPT ![id].status = "cancelled"]

\* cancel_order's effect on the persisted records.
CancelStore(id, v, save) ==
  IF orders[id] = NoOrder \/ v = "raise" \/ save # "ok" THEN store
  ELSE [store EXCEPT ![id] = CancelOrders(id, v)[id]]

\* The venue's side of cancel_order (MockExchange.cancel_order).
CancelVenue(id, v) ==
  IF orders[id] # NoOrder /\ v = "ok" THEN [venue EXCEPT ![id] = "cancelled"]
  ELSE venue

\* cancel_order's return value.
CancelReturn(id, v, save) ==
  orders[id] # NoOrder /\ v # "raise" /\ save = "ok"

\* The record of completed cancel_order calls after one more call.
CancelSeen(id, v, save) ==
  IF cancelOk[id] >= 1 THEN [cancelOk EXCEPT ![id] = 2]
  ELSE IF CancelReturn(id, v, save) THEN [cancelOk EXCEPT ![id] = 1]
  ELSE cancelOk

\* OrderManager.cancel_order(order_id), called from outside the monitor.
CancelOrder(id, v, save) ==
  /\ orders' = CancelOrders(id, v)
  /\ store' = CancelStore(id, v, save)
  /\ venue' = CancelVenue(id, v)
  /\ cancelOk' = CancelSeen(id, v, save)
  /\ UNCHANGED <<rt, nextId, mon, monStarts, monCancels>>
  /\ UnchangedExecutor

\* What exchange.fetch_order may answer for order id: it raises, or reports
\* the venue's status, the venue having filled an open order or not.
FetchAnswers(id) ==
  {[status |-> "error"]}
  \cup (IF venue[id] = "cancelled" THEN {[status |-> "cancelled"]} ELSE {})
  \cup (IF venue[id] = "open" THEN {[status |-> "open"]} ELSE {})
  \cup (IF venue[id] \in {"open", "closed"}
        THEN {[status |-> "closed", filled |-> f, average |-> p] :
                f \in FillReports, p \in AvgReports}
        ELSE {})

\* A loop that runs while attempt <= max_attempts.
MonitorLoopsInclusive(id) ==
  mon[id].attempt <= MonitorMaxAttempts /\ orders[id].status = "pending"

\* `while attempt < max_attempts and order.status == OrderStatus.PENDING`
MonitorLoops(id) ==
  mon[id].attempt < MonitorMaxAttempts /\ orders[id].status = "pending"

\* _monitor_order, loop head: the loop condition holds and fetch_order is
\* awaited.
MonitorPoll(id, r) ==
  /\ mon[id].pc = "loop"
  /\ MonitorLoops(id)
  /\ r \in FetchAnswers(id)
  /\ mon' = [mon EXCEPT ![id].pc = "fetch", ![id].resp = r,
                        ![id].fetches = @ + 1,
                        ![id].faulted = @ \/ r.status = "error"]
  /\ venue' = IF r.status = "closed" THEN [venue EXCEPT ![id] = "closed"] ELSE venue
  /\ UNCHANGED <<rt, orders, nextId, store, monStarts, monCancels, cancelOk>>
  /\ UnchangedExecutor

\* The order as the monitor leaves it on the answer r.
MonitorApply(o, r) ==
  IF r.status = "closed"
    THEN [o EXCEPT !.status = "filled", !.filled_amount = r.filled,
                   !.average_price = r.average]
  ELSE IF r.status = "cancelled" THEN [o EXCEPT !.status = "cancelled"]
  ELSE o

\* A loop whose `except` leaves the loop as well.
MonitorBreaksOnError(r) == r.status \in {"closed", "cancelled", "error"}

\* The answers on which the loop body reaches a `break`.
MonitorBreaks(r) == r.status \in {"closed", "cancelled"}

\* _monitor_order after the loop: `await save_order`; a raise ends the task.
MonitorSave(id, o, save) ==
  LET used == o.status = "pending" /\ mon[id].attempt >= MonitorMaxAttempts
  IN IF save = "ok"
       THEN /\ store' = [store EXCEPT ![id] = o]
            /\ mon' = [mon EXCEPT ![id].pc = "saved", ![id].resp = NoResp,
                                  ![id].exhausted = used]
       ELSE /\ store' = store
            /\ mon' = [mon EXCEPT ![id].pc = "crashed", ![id].resp = NoResp,
                                  ![id].exhausted = used, ![id].attempt = 0]

\* _monitor_order resumes from fetch_order: closed and cancelled set the
\* status and break to the save; anything else sleeps and counts an attempt.
MonitorResume(id, save) ==
  /\ mon[id].pc = "fetch"
  /\ LET o == MonitorApply(orders[id], mon[id].resp)
     IN /\ orders' = [orders EXCEPT ![id] = o]
        /\ IF MonitorBreaks(mon[id].resp)
             THEN MonitorSave(id, o, save)
             ELSE /\ mon' = [mon EXCEPT ![id].pc = "loop", ![id].resp = NoResp,
                                        ![id].attempt = @ + 1]
                  /\ store' = store
  /\ UNCHANGED <<rt, nextId, venue, monStarts, monCancels, cancelOk>>
  /\ UnchangedExecutor

\* _monitor_order, loop head: the loop condition fails, the order is saved.
MonitorLoopExit(id, save) ==
  /\ mon[id].pc = "loop"
  /\ ~MonitorLoops(id)
  /\ MonitorSave(id, orders[id], save)
  /\ UNCHANGED <<rt, orders, nextId, venue, monStarts, monCancels, cancelOk>>
  /\ UnchangedExecutor

\* _monitor_order after the save: cancel the order if it is still pending
\* and the attempts are used up, then the task ends.
MonitorFinal(id, v, save) ==
  /\ mon[id].pc = "saved"
  /\ IF orders[id].status = "pending" /\ mon[id].attempt >= MonitorMaxAttempts
       THEN /\ orders' = CancelOrders(id, v)
            /\ store' = CancelStore(id, v, save)
            /\ venue' = CancelVenue(id, v)
            /\ cancelOk' = CancelSeen(id, v, save)
            /\ monCancels' = [monCancels EXCEPT ![id] = @ + 1]
       ELSE UNCHANGED <<orders, store, venue, cancelOk, monCancels>>
  /\ mon' = [mon EXCEPT ![id].pc = "done", ![id].attempt = 0]
  /\ UNCHANGED <<rt, nextId, monStarts>>
  /\ UnchangedExecutor

\* ------------------------------------------------------------ RiskManager
max_positions == 1         \* RiskLimits.max_positions
max_position_size == 2     \* RiskLimits.max_position_size
max_daily_loss == 50       \* RiskLimits.max_daily_loss
Balances == {0, 10, 100}   \* balance['free']['USDT']
Prices == {50, 90}         \* ticker['last']
DailyPnls == {0 - 60, 0 - 50, 0}   \* sum of the pnl of today's trades
Counts == 0..2             \* open positions the state manager lists
RiskAmounts == 1..3
IdleRisk == [pc |-> "idle"]

\* _calculate_daily_pnl: `datetime` is not imported by the module, so the
\* argument of get_trades_since raises NameError before any trade is read.
_calculate_daily_pnl(trades) == [raised |-> TRUE, value |-> trades]

\* _calculate_required_margin > usdt_balance * 0.9, with the margin
\* price * amount / 10, in exact arithmetic.
InsufficientMargin(price, amount, balance) == price * amount > 9 * balance

\* RiskManager.can_open_position: the four checks in the code's order; an
\* exception of a callee leaves the method.
can_open_position(amount, count, trades, balance, price) ==
  IF count >= max_positions THEN "false"
  ELSE IF amount > max_position_size THEN "false"
  ELSE IF _calculate_daily_pnl(trades).raised THEN "raise"
  ELSE IF _calculate_daily_pnl(trades).value < 0 - max_daily_loss THEN "false"
  ELSE IF InsufficientMargin(price, amount, balance) THEN "false"
  ELSE "true"

\* One call of can_open_position on the given account state.
CanOpenPosition(sym, amount, count, trades, balance, price) ==
  /\ risk.pc = "idle"
  /\ risk' = [pc |-> "done", symbol |-> sym, amount |-> amount,
              count |-> count, pnl |-> trades, balance |-> balance,
              price |-> price,
              result |-> can_open_position(amount, count, trades, balance, price)]
  /\ UNCHANGED <<rt, orders, nextId, store, venue, mon, monStarts, monCancels,
                 cancelOk, positions, posStore, closeFailed, syncSeen, agg, exSeen, bot, exActive, targets, ex,
                 opening, history>>

position_size_pct == 50    \* RiskLimits.position_size_pct = 0.5, in hundredths
SizeBalances == {0, 100, 200, 400, 1000}   \* balance['free']['USDT']
SizePrices == {0, 50, 90}                  \* ticker['last']

\* A sizing that takes the larger of the two.
CappedSizeMax(position_size) ==
  IF position_size.num >= max_position_size * position_size.den
    THEN position_size
    ELSE [num |-> max_position_size, den |-> 1]

\* min(position_size, self.limits.max_position_size), the size being the
\* fraction num / den.
CappedSize(position_size) ==
  IF position_size.num <= max_position_size * position_size.den
    THEN position_size
    ELSE [num |-> max_position_size, den |-> 1]

\* RiskManager.calculate_position_size: position_value / current_price,
\* capped; a price of 0 raises ZeroDivisionError.
calculate_position_size(balance, price) ==
  IF price = 0 THEN [raised |-> TRUE]
  ELSE [raised |-> FALSE,
        size |-> CappedSize([num |-> balance * position_size_pct,
                             den |-> price * 100])]

\* One call of calculate_position_size on the given balance and price.
CalculatePositionSize(sym, balance, price) ==
  /\ risk.pc = "idle"
  /\ risk' = [pc |-> "sized", symbol |-> sym, balance |-> balance,
              price |-> price,
              result |-> calculate_position_size(balance, price)]
  /\ UNCHANGED <<rt, orders, nextId, store, venue, mon, monStarts, monCancels,
                 cancelOk, positions, posStore, closeFailed, syncSeen, agg, exSeen, bot, exActive, targets, ex,
                 opening, history>>

\* The caller has the answer (or the exception).
RiskDone ==
  /\ risk.pc \in {"done", "sized"}
  /\ risk' = IdleRisk
  /\ UNCHANGED <<rt, orders, nextId, store, venue, mon, monStarts, monCancels,
                 cancelOk, positions, posStore, closeFailed, syncSeen, agg, exSeen, bot, exActive, targets, ex,
                 opening, history>>

\* -------------------------------------------------------- PositionManager
EntryPrices == {100}        \* entry_price of open_position
ClosePrices == {90, 110}    \* exit_price of close_position
MarkPrices == {100}         \* the venue's mark price

\* Position(symbol, side, entry_price, amount, entry_time) with the
\* dataclass defaults: no exit, pnl 0, status 'open'.
NewPosition(side, entry_price, amount) ==
  [status |-> "open", side |-> side, entry_price |-> entry_price,
   amount |-> amount, exit_price |-> 0, exit_time |-> "none", pnl |-> 0]

\* How an open_position call ends: the denial's Exception, an exception of
\* the risk manager or of save_position, or the Position.
OpenResult(gate, save) ==
  IF gate = "false" THEN "risk_limit"
  ELSE IF gate = "raise" \/ save # "ok" THEN "raise"
  ELSE "position"

\* An open_position that stores the Position without looking at the answer.
OpenPositionsUngated(sym, side, amount, price, gate) ==
  [positions EXCEPT ![sym] = NewPosition(side, price, amount)]

\* self.positions after open_position: the new Position is stored under its
\* symbol once can_open_position has answered true, before save_position.
OpenPositions(sym, side, amount, price, gate) ==
  IF gate = "true"
    THEN [positions EXCEPT ![sym] = NewPosition(side, price, amount)]
    ELSE positions

\* PositionManager.open_position.  can_open_position (the risk manager is
\* the constructor's argument) answers `gate`; nothing is changed before
\* its answer, so the call acts when the answer arrives.
OpenPosition(sym, side, amount, price, gate, save) ==
  /\ positions' = OpenPositions(sym, side, amount, price, gate)
  /\ posStore' = IF gate = "true" /\ save = "ok"
                   THEN [posStore EXCEPT ![sym] = NewPosition(side, price, amount)]
                   ELSE posStore
  /\ UNCHANGED <<rt, orders, nextId, store, venue, mon, monStarts, monCancels,
                 cancelOk, closeFailed, syncSeen, agg, exSeen, bot, exActive, targets, ex,
                 risk, opening, history>>

\* A pnl that takes the long formula for both sides.
ClosePnlLongOnly(pos, exit_price) ==
  (exit_price - pos.entry_price) * pos.amount

\* The pnl close_position computes.
ClosePnl(pos, exit_price) ==
  IF pos.side = "long"
    THEN (exit_price - pos.entry_price) * pos.amount
    ELSE (pos.entry_price - exit_price) * pos.amount

\* The position as close_position leaves it.
ClosedPosition(pos, exit_price) ==
  [pos EXCEPT !.exit_price = exit_price, !.exit_time = "set",
              !.status = "closed", !.pnl = ClosePnl(pos, exit_price)]

\* A close_position that only refuses a missing record.
CloseFailsOnMissingOnly(sym) == positions[sym] = NoPosition

\* close_position raises "No open position": no record, or a closed one.
CloseFails(sym) == positions[sym] = NoPosition \/ positions[sym].status = "closed"

\* PositionManager.close_position.
ClosePosition(sym, exit_price, save) ==
  /\ IF CloseFails(sym)
       THEN /\ closeFailed' = TRUE
            /\ UNCHANGED <<positions, posStore>>
       ELSE /\ positions' = [positions EXCEPT
                               ![sym] = ClosedPosition(positions[sym], exit_price)]
            /\ posStore' = IF save = "ok"
                             THEN [posStore EXCEPT ![sym] = positions'[sym]]
                             ELSE posStore
            /\ closeFailed' = closeFailed
  /\ UNCHANGED <<rt, orders, nextId, store, venue, mon, monStarts, monCancels,
                 cancelOk, syncSeen, agg, exSeen, bot, exActive, targets, ex, risk,
                 opening, history>>

\* One record of exchange.fetch_positions, with the keys MockExchange and
\* BinanceExchange give it.
VenuePositions ==
  [symbol : Symbols, side : {"long", "short"}, contracts : {0, 1},
   mark_price : MarkPrices]

\* The lists fetch_positions returns.
VenueLists ==
  {<<>>} \cup {<<a>> : a \in VenuePositions}
         \cup {<<a, b>> : a \in VenuePositions, b \in VenuePositions}

\* Position(...) as sync_positions rebuilds it from the venue's record:
\* ex_pos['markPrice'] is a KeyError on a record without that key.
RecoveredPosition(p) ==
  IF "markPrice" \in DOMAIN p
    THEN [raised |-> FALSE,
          position |-> NewPosition(IF p.side = "long" THEN "long" ELSE "short",
                                   p.markPrice, p.contracts)]
    ELSE [raised |-> TRUE]

\* A sync loop that also overwrites the amount of a position it already has.
RECURSIVE SyncLoopOverwrite(_, _)
SyncLoopOverwrite(pos, list) ==
  IF list = <<>> THEN pos
  ELSE LET p == Head(list)
       IN IF pos[p.symbol] # NoPosition
            THEN SyncLoopOverwrite([pos EXCEPT ![p.symbol].amount = p.contracts],
                                   Tail(list))
            ELSE SyncLoopOverwrite(pos, Tail(list))

\* The loop of sync_positions over the venue's list: a record with
\* contracts > 0 whose symbol is not in self.positions is rebuilt and
\* stored; an exception leaves the loop (it is caught and logged).
RECURSIVE SyncLoop(_, _)
SyncLoop(pos, list) ==
  IF list = <<>> THEN pos
  ELSE LET p == Head(list)
       IN IF pos[p.symbol] = NoPosition /\ p.contracts > 0
            THEN IF RecoveredPosition(p).raised
                   THEN pos
                   ELSE SyncLoop([pos EXCEPT ![p.symbol] = RecoveredPosition(p).position],
                                 Tail(list))
            ELSE SyncLoop(pos, Tail(list))

\* The symbols a venue list reports with contracts > 0.
OpenOnVenue(list) ==
  {list[i].symbol : i \in {j \in DOMAIN list : list[j].contracts > 0}}

\* PositionManager.sync_positions; nothing is saved to the state manager.
SyncPositions(rep) ==
  /\ positions' = SyncLoop(positions, rep)
  /\ syncSeen' = OpenOnVenue(rep)
  /\ UNCHANGED <<rt, orders, nextId, store, venue, mon, monStarts, monCancels,
                 cancelOk, posStore, closeFailed, agg, exSeen, bot, exActive, targets, ex,
                 risk, opening, history>>

\* No open_position call is in progress for the symbol.
NoCall == [pc |-> "none"]

\* len(open_positions) as can_open_position computes it from the records
\* state_manager.get_all_positions() returns.
StoredOpenCount ==
  Cardinality({s \in Symbols : posStore[s].status = "open"})

\* What can_open_position can answer to a call that has read `count`: False
\* at the position limit and above the size limit; below them the answer
\* comes from the checks that follow (daily pnl, balance, margin), which
\* the risk manager given to PositionManager makes on its own collaborators.
GateAnswers(count, amount) ==
  IF count >= max_positions \/ amount > max_position_size
    THEN {"false"}
    ELSE {"true", "false", "raise"}

\* open_position up to the first suspension inside can_open_position: the
\* stored positions have been read and counted, the other checks are
\* awaited.
OpenBegin(sym, side, amount, price) ==
  /\ opening[sym] = NoCall
  /\ opening' = [opening EXCEPT ![sym] =
                   [pc |-> "checked", side |-> side, amount |-> amount,
                    price |-> price, count |-> StoredOpenCount]]
  /\ UNCHANGED <<rt, orders, nextId, store, venue, mon, monStarts, monCancels,
                 cancelOk, positions, posStore, closeFailed, syncSeen, agg,
                 exSeen, bot, exActive, targets, ex, risk, history>>

\* open_position from the answer of can_open_position on: the exception,
\* or the Position stored and saved.
OpenEnd(sym, gate, save) ==
  /\ opening[sym] # NoCall
  /\ gate \in GateAnswers(opening[sym].count, opening[sym].amount)
  /\ positions' = OpenPositions(sym, opening[sym].side, opening[sym].amount,
                                opening[sym].price, gate)
  /\ posStore' = IF gate = "true" /\ save = "ok"
                   THEN [posStore EXCEPT ![sym] = positions'[sym]]
                   ELSE posStore
  /\ opening' = [opening EXCEPT ![sym] = NoCall]
  /\ UNCHANGED <<rt, orders, nextId, store, venue, mon, monStarts, monCancels,
                 cancelOk, closeFailed, syncSeen, agg, exSeen, bot, exActive,
                 targets, ex, risk, history>>

\* PositionManager.get_position(symbol), which the executor's handlers call.
get_position(sym) == positions[sym]

\* -------------------------------------------------------- TradingExecutor
min_confidence == 6        \* config.min_confidence, in tenths
Confidences == {5, 7}      \* signal.confidence, in tenths
Kinds == {"long_entry", "long_exit", "short_entry", "short_exit", "neutral"}
Signals == [signal : Kinds, symbol : Symbols, confidence : Confidences]

\* order_book_manager.get_order_book(symbol): None, or a snapshot with
\* `depth` levels on each side.
Books == {[present |-> FALSE]} \cup [present : {TRUE}, depth : 1..3]

\* The price an entry handler passes: the 2nd best level of its side if the
\* snapshot has one, else signal.price.
EntryPrice(kind, book) ==
  IF book.present /\ book.depth > 1
    THEN (IF kind = "long_entry" THEN "bid2" ELSE "ask2")
    ELSE "signal"

\* The price an exit handler passes: the 3rd best level of its side if the
\* snapshot has one, else signal.price.
ExitPrice(kind, book) ==
  IF book.present /\ book.depth > 2
    THEN (IF kind = "long_exit" THEN "ask3" ELSE "bid3")
    ELSE "signal"

\* An entry handler that does not stop on a denial.
EntryGateIgnored(gate) == gate # "raise"

\* `if not await self.risk_manager.can_open_position(...): return None`:
\* the handler goes on only when the answer is true.
EntryGate(gate) == gate = "true"

\* A confidence check applied to entry signals only.
BelowMinimumEntriesOnly(sig) ==
  sig.confidence < min_confidence /\ sig.signal \in {"long_entry", "short_entry"}

\* `if signal.confidence < self.config.min_confidence: return None`
BelowMinimum(sig) == sig.confidence < min_confidence

\* An entry handler that stops only on an open long position.
HasOpenPositionLongOnly(sym) ==
  get_position(sym).status = "open" /\ get_position(sym).side = "long"

\* `if position and position.status == 'open': return None`
HasOpenPosition(sym) == get_position(sym).status = "open"

\* The risk manager's methods an execute_signal call awaits, in order:
\* calculate_position_size (sizeOk: it returned), then can_open_position.
RiskCalls(sig, sizeOk) ==
  IF BelowMinimum(sig) \/ sig.signal \notin {"long_entry", "short_entry"}
       \/ HasOpenPosition(sig.symbol)
    THEN <<>>
  ELSE IF ~sizeOk THEN <<"calculate_position_size">>
  ELSE <<"calculate_position_size", "can_open_position">>

\* _handle_long_entry / _handle_short_entry up to the place_order call.
\* sizeOk / size is what calculate_position_size did, gate what
\* can_open_position answered (the risk manager is the constructor's
\* argument).
HandleEntry(sig, sizeOk, size, gate, book) ==
  IF HasOpenPosition(sig.symbol) \/ ~sizeOk \/ ~EntryGate(gate)
    THEN UNCHANGED <<rt, ex>>
    ELSE /\ rt' = PlaceOrderStart(
                    [symbol |-> sig.symbol,
                     side |-> IF sig.signal = "long_entry" THEN "buy" ELSE "sell",
                     amount |-> size,
                     price |-> EntryPrice(sig.signal, book),
                     caller |-> sig.signal])
         /\ ex' = [pc |-> "placing", op |-> sig.signal, symbol |-> sig.symbol,
                   size |-> size, gate |-> gate, queue |-> {}]

\* The place_order call of an exit handler, after _cancel_symbol_orders.
ExitPlace(kind, sym, book) ==
  /\ rt' = PlaceOrderStart(
             [symbol |-> sym,
              side |-> IF kind = "long_exit" THEN "sell" ELSE "buy",
              amount |-> positions[sym].amount,
              price |-> ExitPrice(kind, book),
              caller |-> kind])
  /\ ex' = [pc |-> "placing", op |-> kind, symbol |-> sym,
            size |-> positions[sym].amount, gate |-> "none", queue |-> {}]

\* A list built from the orders that are FILLED.
SymbolOrdersFilled(sym) ==
  {id \in exActive : orders[id].symbol = sym /\ orders[id].status = "filled"}

\* _cancel_symbol_orders: the tracked ids of the symbol that are PENDING when
\* the list is built.
SymbolOrders(sym) ==
  {id \in exActive : orders[id].symbol = sym /\ orders[id].status = "pending"}

\* _handle_long_exit / _handle_short_exit up to the first await.
HandleExit(sig, book) ==
  LET pos == get_position(sig.symbol)
      want == IF sig.signal = "long_exit" THEN "long" ELSE "short"
  IN IF pos.status # "open" \/ pos.side # want
       THEN UNCHANGED <<rt, ex>>
     ELSE IF SymbolOrders(sig.symbol) = {}
       THEN ExitPlace(sig.signal, sig.symbol, book)
     ELSE /\ ex' = [pc |-> "cancelling", op |-> sig.signal,
                    symbol |-> sig.symbol, size |-> pos.amount,
                    gate |-> "none", queue |-> SymbolOrders(sig.symbol)]
          /\ rt' = rt

\* TradingExecutor.execute_signal: the confidence check, the routing and the
\* handler up to its first call that changes state.
ExecuteSignal(sig, sizeOk, size, gate, book) ==
  /\ ex.pc = "idle" /\ rt.state = "idle"
  /\ IF BelowMinimum(sig)
       THEN UNCHANGED <<rt, ex>>
     ELSE IF sig.signal \in {"long_entry", "short_entry"}
       THEN HandleEntry(sig, sizeOk, size, gate, book)
     ELSE IF sig.signal \in {"long_exit", "short_exit"}
       THEN HandleExit(sig, book)
     ELSE UNCHANGED <<rt, ex>>
  /\ UNCHANGED <<orders, nextId, store, venue, mon, monStarts, monCancels,
                 cancelOk, positions, posStore, closeFailed, syncSeen, agg,
                 bot, exActive, targets, risk, opening, history>>

\* execute_signal with its argument, the position it found and the risk
\* manager calls it made noted down.
NoSignal == [signal |-> "none", symbol |-> "none", confidence |-> 0]
ExecuteSignalCall(sig, sizeOk, size, gate, book) ==
  /\ ExecuteSignal(sig, sizeOk, size, gate, book)
  /\ exSeen' = [sig |-> sig, tick |-> 1 - exSeen.tick,
                position |-> get_position(sig.symbol),
                calls |-> RiskCalls(sig, sizeOk)]

\* TradingExecutor.cancel_all_orders: every tracked id, whatever its status.
CancelAllOrders ==
  /\ ex.pc = "idle" /\ rt.state = "idle"
  /\ exActive # {}
  /\ ex' = [pc |-> "cancelling", op |-> "cancel_all", symbol |-> "none",
            size |-> 0, gate |-> "none", queue |-> exActive]
  /\ UNCHANGED <<rt, orders, nextId, store, venue, mon, monStarts, monCancels,
                 cancelOk, positions, posStore, closeFailed, syncSeen, agg, exSeen, bot, exActive, targets,
                 risk, opening, history>>

Least(S) == CHOOSE x \in S : \A y \in S : x <= y

\* One `await self.order_manager.cancel_order(order_id)` of
\* _cancel_symbol_orders or cancel_all_orders; after the last one an exit
\* handler goes on to its place_order call.
ExecCancelNext(v, save, book) ==
  /\ ex.pc = "cancelling"
  /\ LET id == Least(ex.queue)
         rest == ex.queue \ {id}
     IN /\ orders' = CancelOrders(id, v)
        /\ store' = CancelStore(id, v, save)
        /\ venue' = CancelVenue(id, v)
        /\ cancelOk' = CancelSeen(id, v, save)
        /\ IF rest # {}
             THEN ex' = [ex EXCEPT !.queue = rest] /\ rt' = rt
           ELSE IF ex.op = "cancel_all"
             THEN ex' = IdleEx /\ rt' = rt
           ELSE ExitPlace(ex.op, ex.symbol, book)
  /\ UNCHANGED <<nextId, mon, monStarts, monCancels, positions, posStore, closeFailed, syncSeen, agg, exSeen, bot, exActive,
                 targets, risk, opening, history>>

\* -------------------------------------------------------- SignalAggregator
MaxSignals == 3            \* signals collected in one cycle
MaxSources == 3            \* registered strategies
min_consensus == 6         \* SignalAggregator.min_consensus = 0.6, in tenths
IdleSig == [op |-> "idle"]

\* The signals the strategies hand in.
SourceSignals ==
  [symbol : Symbols, signal : {"long_entry", "long_exit"},
   confidence : {5, 9}, timestamp : {0, 400}]

\* The lists of up to MaxSignals signals.
SignalLists ==
  UNION {[1..k -> SourceSignals] : k \in 0..MaxSignals}

\* key = (signal.symbol, signal.signal)
SignalKey(s) == <<s.symbol, s.signal>>

\* signal_groups' keys, in the dict's insertion order.
RECURSIVE GroupKeys(_)
GroupKeys(signals) ==
  IF signals = <<>> THEN <<>>
  ELSE LET front == GroupKeys(SubSeq(signals, 1, Len(signals) - 1))
           k == SignalKey(signals[Len(signals)])
       IN IF \E i \in DOMAIN front : front[i] = k THEN front ELSE Append(front, k)

\* signal_groups[key]
SignalGroup(signals, k) == SelectSeq(signals, LAMBDA s : SignalKey(s) = k)

\* sum(s.confidence for s in group)
RECURSIVE SumConfidence(_)
SumConfidence(group) ==
  IF group = <<>> THEN 0 ELSE Head(group).confidence + SumConfidence(Tail(group))

\* A consensus test against one half instead of min_consensus.
HasConsensusHalf(count, sources) == count * 10 >= 5 * sources

\* consensus = len(group) / len(self.strategies); consensus >= min_consensus
HasConsensus(count, sources) == count * 10 >= min_consensus * sources

\* The TradingSignal built for a group: its confidence is
\* avg_confidence * consensus = conf_sum / sources.
AggregatedSignal(k, group, sources) ==
  [symbol |-> k[1], signal |-> k[2], strategies_count |-> Len(group),
   conf_sum |-> SumConfidence(group), sources |-> sources]

\* The loop over signal_groups.items().
RECURSIVE AggregateGroups(_, _, _)
AggregateGroups(keys, signals, sources) ==
  IF keys = <<>> THEN <<>>
  ELSE LET group == SignalGroup(signals, Head(keys))
           rest == AggregateGroups(Tail(keys), signals, sources)
       IN IF HasConsensus(Len(group), sources)
            THEN <<AggregatedSignal(Head(keys), group, sources)>> \o rest
            ELSE rest

\* SignalAggregator._aggregate_signals
_aggregate_signals(signals, sources) ==
  IF sources = 1 THEN signals
  ELSE AggregateGroups(GroupKeys(signals), signals, sources)

UnchangedBySignals ==
  UNCHANGED <<rt, orders, nextId, store, venue, mon, monStarts, monCancels,
              cancelOk, positions, posStore, closeFailed, syncSeen, exSeen, bot,
              exActive, targets, ex, risk, opening, history>>

\* One call of _aggregate_signals with `sources` registered strategies.
AggregateSignals(signals, sources) ==
  /\ agg.op = "idle"
  /\ agg' = [op |-> "aggregate", input |-> signals, sources |-> sources,
             out |-> _aggregate_signals(signals, sources)]
  /\ UnchangedBySignals

\* CommonFilters, as registered with add_filter.
filter_threshold == 7      \* min_confidence(threshold = 0.7), in tenths
recent_window == 300       \* no_recent_signal(minutes = 5): minutes * 60
FilterChains ==
  {<<>>, <<"min_confidence">>, <<"no_recent_signal">>,
   <<"min_confidence", "no_recent_signal">>,
   <<"no_recent_signal", "min_confidence">>}
SignalKeys == Symbols \X {"long_entry", "long_exit"}
NoTime == 0 - 1
NoRecent == [k \in SignalKeys |-> NoTime]

\* filter.condition(signal), given no_recent_signal's recent_signals.
FilterCondition(f, s, recent) ==
  IF f = "min_confidence" THEN s.confidence >= filter_threshold
  ELSE ~(/\ recent[SignalKey(s)] # NoTime
         /\ s.timestamp - recent[SignalKey(s)] < recent_window)

\* recent_signals after filter.condition(signal): no_recent_signal records
\* the timestamp of a signal it accepts.
FilterRecord(f, s, recent) ==
  IF f = "no_recent_signal" /\ FilterCondition(f, s, recent)
    THEN [recent EXCEPT ![SignalKey(s)] = s.timestamp]
    ELSE recent

\* An inner loop without the `break`: every filter is evaluated.
RECURSIVE ApplyFiltersNoBreak(_, _, _, _)
ApplyFiltersNoBreak(n, s, filters, st) ==
  IF filters = <<>>
    THEN [passed |-> TRUE, recent |-> st.recent, log |-> st.log]
  ELSE LET f == Head(filters)
           ok == FilterCondition(f, s, st.recent)
           r == ApplyFiltersNoBreak(n, s, Tail(filters),
                  [recent |-> FilterRecord(f, s, st.recent),
                   log |-> Append(st.log, [signal |-> n, filter |-> f, ok |-> ok])])
       IN [r EXCEPT !.passed = ok /\ r.passed]

\* The inner loop of _filter_signals on the n-th signal: the filters in
\* registration order, left at the first one that rejects.  `log` lists the
\* condition calls made.
RECURSIVE ApplyFilters(_, _, _, _)
ApplyFilters(n, s, filters, st) ==
  IF filters = <<>>
    THEN [passed |-> TRUE, recent |-> st.recent, log |-> st.log]
  ELSE LET f == Head(filters)
           ok == FilterCondition(f, s, st.recent)
           recent2 == FilterRecord(f, s, st.recent)
           log2 == Append(st.log, [signal |-> n, filter |-> f, ok |-> ok])
       IN IF ~ok
            THEN [passed |-> FALSE, recent |-> recent2, log |-> log2]
            ELSE ApplyFilters(n, s, Tail(filters), [recent |-> recent2, log |-> log2])

\* The outer loop of _filter_signals, from the n-th signal on.
RECURSIVE FilterLoop(_, _, _, _)
FilterLoop(n, signals, filters, acc) ==
  IF n > Len(signals) THEN acc
  ELSE LET r == ApplyFilters(n, signals[n], filters,
                             [recent |-> acc.recent, log |-> acc.log])
       IN FilterLoop(n + 1, signals, filters,
                     [out |-> IF r.passed THEN Append(acc.out, signals[n])
                                          ELSE acc.out,
                      recent |-> r.recent, log |-> r.log])

\* SignalAggregator._filter_signals
_filter_signals(signals, filters, recent) ==
  FilterLoop(1, signals, filters, [out |-> <<>>, recent |-> recent, log |-> <<>>])

\* One call of _filter_signals with freshly built filters.
FilterSignals(signals, filters) ==
  /\ agg.op = "idle"
  /\ LET r == _filter_signals(signals, filters, NoRecent)
     IN agg' = [op |-> "filter", input |-> signals, filters |-> filters,
                out |-> r.out, recent |-> r.recent, log |-> r.log]
  /\ UnchangedBySignals

\* The caller has the list.
SignalsDone ==
  /\ agg.op # "idle"
  /\ agg' = IdleSig
  /\ UnchangedBySignals

\* ----------------------------------------------------------- SignalHistory
max_history == 2           \* SignalHistory(max_history = 2): the deque's maxlen

\* The records add_signal appends: the signal (its kind here), whether it
\* was executed and whether it was profitable (None, True or False).
HistoryRecords ==
  [signal : {"long_entry", "long_exit"}, executed : BOOLEAN,
   profitable : {"none", "true", "false"}]

\* SignalHistory(): an empty deque and the initial stats; win_rate is the
\* fraction num / den.
NewHistory ==
  [signals |-> <<>>,
   stats |-> [total_signals |-> 0, win_rate |-> [num |-> 0, den |-> 1]],
   added |-> <<>>]

\* deque(maxlen = max_history).append: the oldest record goes when full.
DequeAppend(signals, record) ==
  IF Len(signals) < max_history THEN Append(signals, record)
  ELSE Append(Tail(signals), record)

\* executed_count and profitable_count of _update_stats' loop.
ExecutedCount(signals) ==
  Cardinality({i \in DOMAIN signals : signals[i].executed})
ProfitableCount(signals) ==
  Cardinality({i \in DOMAIN signals :
                 signals[i].executed /\ signals[i].profitable = "true"})

\* SignalHistory._update_stats, for total_signals and win_rate: nothing on
\* an empty deque, and win_rate is assigned only if executed_count > 0.
_update_stats(stats, signals) ==
  IF signals = <<>> THEN stats
  ELSE [total_signals |-> Len(signals),
        win_rate |-> IF ExecutedCount(signals) > 0
                       THEN [num |-> ProfitableCount(signals),
                             den |-> ExecutedCount(signals)]
                       ELSE stats.win_rate]

\* SignalHistory.add_signal
AddSignal(record) ==
  /\ history' = [signals |-> DequeAppend(history.signals, record),
                 stats |-> _update_stats(history.stats,
                                         DequeAppend(history.signals, record)),
                 added |-> Append(history.added, record)]
  /\ UNCHANGED <<rt, orders, nextId, store, venue, mon, monStarts, monCancels,
                 cancelOk, positions, posStore, closeFailed, syncSeen, agg,
                 exSeen, bot, exActive, targets, ex, risk, opening>>

\* ------------------------------------------------------------ specification
\* -------------------------------------------------------------- TradingBot
\* stop() has not been called: the bot runs, the venue is connected.
RunningBot == [pc |-> "running", log |-> <<>>, left |-> {}, connected |-> TRUE]

\* get_open_positions(): the symbols whose position is open.
OpenSymbols == {sym \in Symbols : positions[sym].status = "open"}

\* The price close_all_positions passes: the best level of the side, or
\* None with a market order when there is no snapshot.
FlattenPrice(side, book) ==
  IF ~book.present THEN "market"
  ELSE IF side = "long" THEN "bid1" ELSE "ask1"

\* TradingBot.stop up to executor.close_all_positions' list of positions.
StopBegin ==
  /\ bot.pc = "running"
  /\ ex.pc = "idle" /\ rt.state = "idle"
  /\ bot' = [bot EXCEPT !.pc = "closing", !.left = OpenSymbols]
  /\ UNCHANGED <<rt, orders, nextId, store, venue, mon, monStarts, monCancels,
                 cancelOk, positions, posStore, closeFailed, syncSeen, agg,
                 exSeen, exActive, targets, ex, risk, opening, history>>

\* close_all_positions, one pass of its loop: place_order for the closing
\* order of one position.
StopFlatten(sym, book) ==
  /\ bot.pc = "closing" /\ sym \in bot.left
  /\ rt.state = "idle"
  /\ rt' = PlaceOrderStart(
             [symbol |-> sym,
              side |-> IF positions[sym].side = "long" THEN "sell" ELSE "buy",
              amount |-> positions[sym].amount,
              price |-> FlattenPrice(positions[sym].side, book),
              caller |-> "flatten"])
  /\ bot' = [bot EXCEPT !.pc = "flattening", !.left = @ \ {sym},
                        !.log = Append(@, "flatten")]
  /\ UNCHANGED <<orders, nextId, store, venue, mon, monStarts, monCancels,
                 cancelOk, positions, posStore, closeFailed, syncSeen, agg,
                 exSeen, exActive, targets, ex, risk, opening, history>>

\* The place_order of close_all_positions has ended: the loop goes on, or
\* its exception reaches the `except` of _close_all_positions, which logs
\* it and returns.
StopFlattenDone ==
  /\ bot.pc = "flattening"
  /\ rt.state \in {"returned", "raised"}
  /\ rt' = IdleRt
  /\ bot' = [bot EXCEPT !.pc = IF rt.state = "returned" THEN "closing"
                                                        ELSE "shutdown"]
  /\ UNCHANGED <<orders, nextId, store, venue, mon, monStarts, monCancels,
                 cancelOk, positions, posStore, closeFailed, syncSeen, agg,
                 exSeen, exActive, targets, ex, risk, opening, history>>

\* _close_all_positions after close_all_positions: asyncio.sleep(10).
StopSettle ==
  /\ bot.pc = "closing" /\ bot.left = {}
  /\ bot' = [bot EXCEPT !.pc = "settled", !.log = Append(@, "settle")]
  /\ UNCHANGED <<rt, orders, nextId, store, venue, mon, monStarts, monCancels,
                 cancelOk, positions, posStore, closeFailed, syncSeen, agg,
                 exSeen, exActive, targets, ex, risk, opening, history>>

\* _close_all_positions, the end: a warning if get_positions() is not empty.
StopReport ==
  /\ bot.pc = "settled"
  /\ bot' = [bot EXCEPT !.pc = "shutdown",
                        !.log = IF OpenSymbols # {} THEN Append(@, "warn") ELSE @]
  /\ UNCHANGED <<rt, orders, nextId, store, venue, mon, monStarts, monCancels,
                 cancelOk, positions, posStore, closeFailed, syncSeen, agg,
                 exSeen, exActive, targets, ex, risk, opening, history>>

\* _disconnect_services -> executor.shutdown: stop_streaming().
StopStreaming ==
  /\ bot.pc = "shutdown"
  /\ bot' = [bot EXCEPT !.pc = "cancel", !.log = Append(@, "stop_streams")]
  /\ UNCHANGED <<rt, orders, nextId, store, venue, mon, monStarts, monCancels,
                 cancelOk, positions, posStore, closeFailed, syncSeen, agg,
                 exSeen, exActive, targets, ex, risk, opening, history>>

\* executor.shutdown: cancel_all_orders(), whose cancel_order calls follow
\* one by one.
StopCancelAll ==
  /\ bot.pc = "cancel"
  /\ ex.pc = "idle" /\ rt.state = "idle"
  /\ bot' = [bot EXCEPT !.pc = "cancelled", !.log = Append(@, "cancel_orders")]
  /\ ex' = IF exActive = {} THEN ex
           ELSE [pc |-> "cancelling", op |-> "cancel_all", symbol |-> "none",
                 size |-> 0, gate |-> "none", queue |-> exActive]
  /\ UNCHANGED <<rt, orders, nextId, store, venue, mon, monStarts, monCancels,
                 cancelOk, positions, posStore, closeFailed, syncSeen, agg,
                 exSeen, exActive, targets, risk, opening, history>>

\* _disconnect_services after executor.shutdown has returned:
\* exchange.disconnect().
StopDisconnect ==
  /\ bot.pc = "cancelled" /\ ex.pc = "idle"
  /\ bot' = [bot EXCEPT !.pc = "stopped", !.connected = FALSE,
                        !.log = Append(@, "disconnect")]
  /\ UNCHANGED <<rt, orders, nextId, store, venue, mon, monStarts, monCancels,
                 cancelOk, positions, posStore, closeFailed, syncSeen, agg,
                 exSeen, exActive, targets, ex, risk, opening, history>>

Init ==
  /\ rt = IdleRt
  /\ orders = [i \in OrderIds |-> NoOrder]
  /\ nextId = 0
  /\ store = [i \in OrderIds |-> NoOrder]
  /\ venue = [i \in OrderIds |-> "none"]
  /\ mon = [i \in OrderIds |-> NoMon]
  /\ monStarts = [i \in OrderIds |-> 0]
  /\ monCancels = [i \in OrderIds |-> 0]
  /\ cancelOk = [i \in OrderIds |-> 0]
  /\ positions = [s \in Symbols |-> NoPosition]
  /\ posStore = [s \in Symbols |-> NoPosition]
  /\ closeFailed = FALSE
  /\ syncSeen = {"none"}
  /\ agg = IdleSig
  /\ bot = RunningBot
  /\ exSeen = [sig |-> NoSignal, tick |-> 0, position |-> NoPosition, calls |-> <<>>]
  /\ exActive = {}
  /\ targets = [s \in Symbols |-> NoTarget]
  /\ ex = IdleEx
  /\ risk = IdleRisk
  /\ opening = [s \in Symbols |-> NoCall]
  /\ history = NewHistory

PlaceArgs ==
  [symbol : {"ETH"}, side : {"buy"}, amount : Amounts, price : {"signal"},
   caller : {"direct"}]

Outcomes == {"ok", "raise"}
CancelAnswers == {"ok", "false", "raise"}

Next ==
  \/ \E a \in PlaceArgs : nextId < MaxOrders /\ PlaceOrderCall(a)
  \/ \E s \in Outcomes : nextId < MaxOrders /\ PlaceOrderAccepted(s)
  \/ \E e \in VenueErrors : PlaceOrderRejected(e)
  \/ RetryDone
  \/ \E id \in OrderIds, v \in CancelAnswers, s \in Outcomes : CancelOrder(id, v, s)
  \/ \E id \in OrderIds : \E r \in FetchAnswers(id) : MonitorPoll(id, r)
  \/ \E id \in OrderIds, s \in Outcomes : MonitorResume(id, s)
  \/ \E id \in OrderIds, s \in Outcomes : MonitorLoopExit(id, s)
  \/ \E id \in OrderIds, v \in CancelAnswers, s \in Outcomes : MonitorFinal(id, v, s)

Spec == Init /\ [][Next]_vars

\* The monitors run whenever their awaits have completed.
MonitorStep(id) ==
  \/ \E r \in FetchAnswers(id) : MonitorPoll(id, r)
  \/ \E s \in Outcomes : MonitorResume(id, s)
  \/ \E s \in Outcomes : MonitorLoopExit(id, s)
  \/ \E v \in CancelAnswers, s \in Outcomes : MonitorFinal(id, v, s)

SpecMonitors == Spec /\ \A id \in OrderIds : WF_vars(MonitorStep(id))

\* retry_async on its own, over a function that returns or raises.
RetryNext ==
  \/ \E n \in 1..MaxN, sr \in {"none", "order"}, exc \in {Errors, {"timeout"}} :
       RetryCall(n, sr, exc)
  \/ \E v \in Values : RetryAttemptOk(v)
  \/ \E e \in Errors : RetryAttemptFail(e)
  \/ RetryDone

SpecRetry == Init /\ [][RetryNext]_vars

\* The executor driving OrderManager: signals, cancel_all_orders and
\* position syncs arrive while the monitors run.  Here the state store
\* accepts every write and the venue reports an order's end on the first
\* poll; Spec covers the failing store and the slow venue.
ExecOutcomes == {"ok"}
\* The positions the account comes to hold while the executor runs.
HeldPositions ==
  {[symbol |-> "ETH", side |-> "long"], [symbol |-> "BTC", side |-> "short"]}
PromptAnswers(id) == {r \in FetchAnswers(id) : r.status \in {"closed", "cancelled"}}
ExecNext ==
  \/ \E sig \in Signals, sizeOk \in BOOLEAN, size \in Amounts,
        gate \in {"true", "false", "raise"}, book \in Books :
       ExecuteSignal(sig, sizeOk, size, gate, book) /\ UNCHANGED exSeen
  \/ \E v \in CancelAnswers, s \in ExecOutcomes, book \in Books :
       ExecCancelNext(v, s, book)
  \/ CancelAllOrders
  \/ \E p \in HeldPositions :
       OpenPosition(p.symbol, p.side, 1, 100, "true", "ok")
  \/ \E s \in ExecOutcomes : nextId < MaxOrders /\ PlaceOrderAccepted(s)
  \/ \E e \in VenueErrors : PlaceOrderRejected(e)
  \/ \E id \in OrderIds : \E r \in PromptAnswers(id) : MonitorPoll(id, r)
  \/ \E id \in OrderIds, s \in ExecOutcomes : MonitorResume(id, s)
  \/ \E id \in OrderIds, v \in CancelAnswers, s \in ExecOutcomes : MonitorFinal(id, v, s)

SpecExec == Init /\ [][ExecNext]_vars

\* execute_signal calls, each noted down, between the steps that open
\* positions and settle the submitted orders; the monitors do not run.
GateNext ==
  \/ \E sig \in Signals, sizeOk \in BOOLEAN, size \in Amounts,
        gate \in {"true", "false", "raise"}, book \in Books :
       ExecuteSignalCall(sig, sizeOk, size, gate, book)
  \/ \E v \in CancelAnswers, s \in ExecOutcomes, book \in Books :
       ExecCancelNext(v, s, book)
  \/ \E p \in HeldPositions :
       OpenPosition(p.symbol, p.side, 1, 100, "true", "ok")
  \/ \E s \in ExecOutcomes : nextId < MaxOrders /\ PlaceOrderAccepted(s)
  \/ \E e \in VenueErrors : PlaceOrderRejected(e)

SpecGate == Init /\ [][GateNext]_vars

\* The bot trades (entry signals, positions taken, monitors polling) until
\* stop() is called, then stop() runs to its end while the monitors go on.
StopSignals ==
  {sig \in Signals : sig.signal \in {"long_entry", "short_entry"}
                       /\ sig.confidence >= min_confidence}
StopNext ==
  \/ \E sig \in StopSignals, book \in Books :
       /\ bot.pc = "running"
       /\ ExecuteSignal(sig, TRUE, 1, "true", book)
       /\ UNCHANGED exSeen
  \/ \E p \in HeldPositions :
       bot.pc = "running" /\ OpenPosition(p.symbol, p.side, 1, 100, "true", "ok")
  \/ \E s \in ExecOutcomes : nextId < MaxOrders /\ PlaceOrderAccepted(s)
  \/ \E e \in VenueErrors : PlaceOrderRejected(e)
  \/ \E id \in OrderIds : \E r \in FetchAnswers(id) : MonitorPoll(id, r)
  \/ \E id \in OrderIds, s \in ExecOutcomes : MonitorResume(id, s)
  \/ \E id \in OrderIds, s \in ExecOutcomes : MonitorLoopExit(id, s)
  \/ \E id \in OrderIds, v \in CancelAnswers, s \in ExecOutcomes : MonitorFinal(id, v, s)
  \/ \E v \in CancelAnswers, s \in ExecOutcomes, book \in Books :
       ExecCancelNext(v, s, book)
  \/ StopBegin
  \/ \E sym \in Symbols, book \in Books : StopFlatten(sym, book)
  \/ StopFlattenDone
  \/ StopSettle
  \/ StopReport
  \/ StopStreaming
  \/ StopCancelAll
  \/ StopDisconnect

SpecStop == Init /\ [][StopNext]_vars

\* can_open_position on its own, over the account states.
RiskNext ==
  \/ \E sym \in Symbols, amount \in RiskAmounts, count \in Counts,
        trades \in DailyPnls, balance \in Balances, price \in Prices :
       CanOpenPosition(sym, amount, count, trades, balance, price)
  \/ \E sym \in Symbols, balance \in SizeBalances, price \in SizePrices :
       CalculatePositionSize(sym, balance, price)
  \/ RiskDone

SpecRisk == Init /\ [][RiskNext]_vars

\* PositionManager on its own: positions are opened and closed.
PosNext ==
  \/ \E sym \in Symbols, side \in {"long", "short"}, amount \in Amounts,
        price \in EntryPrices, gate \in {"true", "false", "raise"},
        save \in Outcomes :
       OpenPosition(sym, side, amount, price, gate, save)
  \/ \E sym \in Symbols, exit_price \in ClosePrices, save \in Outcomes :
       ClosePosition(sym, exit_price, save)

SpecPos == Init /\ [][PosNext]_vars

\* Reconciliation: sync_positions runs between approved open_position and
\* close_position calls; here the state store accepts every write.
SyncNext ==
  \/ \E rep \in VenueLists : SyncPositions(rep)
  \/ \E sym \in Symbols, side \in {"long", "short"}, amount \in Amounts,
        price \in EntryPrices :
       OpenPosition(sym, side, amount, price, "true", "ok")
  \/ \E sym \in Symbols, exit_price \in ClosePrices :
       ClosePosition(sym, exit_price, "ok")

SpecSync == Init /\ [][SyncNext]_vars

\* open_position calls in progress side by side, with close_position and
\* sync_positions between their steps.
RaceNext ==
  \/ \E sym \in Symbols, price \in EntryPrices :
       OpenBegin(sym, "long", 1, price)
  \/ \E sym \in Symbols, gate \in {"true", "false", "raise"}, save \in Outcomes :
       OpenEnd(sym, gate, save)
  \/ \E sym \in Symbols, save \in Outcomes : ClosePosition(sym, 110, save)
  \/ \E rep \in VenueLists : SyncPositions(rep)

SpecRace == Init /\ [][RaceNext]_vars

\* place_order with a state store that can fail: the wrapper runs the whole
\* body again, create_order included, and the venue takes what it is sent.
ResubmitNext ==
  \/ \E a \in PlaceArgs : nextId < MaxOrders /\ PlaceOrderCall(a)
  \/ \E s \in Outcomes : PlaceOrderAccepted(s)
  \/ \E e \in VenueErrors : PlaceOrderRejected(e)
  \/ RetryDone
  \/ \E id \in OrderIds : \E r \in FetchAnswers(id) : MonitorPoll(id, r)
  \/ \E id \in OrderIds, s \in Outcomes : MonitorResume(id, s)
  \/ \E id \in OrderIds, s \in Outcomes : MonitorLoopExit(id, s)
  \/ \E id \in OrderIds, v \in CancelAnswers, s \in Outcomes : MonitorFinal(id, v, s)

SpecResubmit == Init /\ [][ResubmitNext]_vars

\* Entry signals arriving one after the other while the orders they placed
\* wait at the venue or are reported filled; the risk manager lets every
\* entry pass and no position is recorded meanwhile.
EntriesNext ==
  \/ \E sig \in StopSignals, book \in Books :
       ExecuteSignal(sig, TRUE, 1, "true", book) /\ UNCHANGED exSeen
  \/ \E s \in ExecOutcomes : PlaceOrderAccepted(s)
  \/ \E e \in VenueErrors : PlaceOrderRejected(e)
  \/ \E id \in OrderIds : \E r \in PromptAnswers(id) : MonitorPoll(id, r)
  \/ \E id \in OrderIds, s \in ExecOutcomes : MonitorResume(id, s)
  \/ \E id \in OrderIds, v \in CancelAnswers, s \in ExecOutcomes : MonitorFinal(id, v, s)

SpecEntries == Init /\ [][EntriesNext]_vars

\* The same run with every step that can be taken eventually taken: the
\* awaits of the handlers and of the monitors complete.
SpecFills == SpecEntries /\ WF_vars(EntriesNext)

\* The aggregator's steps on their own, over the lists of collected signals.
SignalNext ==
  \/ \E signals \in SignalLists, sources \in 1..MaxSources :
       AggregateSignals(signals, sources)
  \/ \E signals \in SignalLists, filters \in FilterChains :
       FilterSignals(signals, filters)
  \/ SignalsDone

SpecSignals == Init /\ [][SignalNext]_vars

\* add_signal calls on one SignalHistory.
HistoryNext ==
  \E record \in HistoryRecords :
    Len(history.added) < MaxAdds /\ AddSignal(record)

SpecHistory == Init /\ [][HistoryNext]_vars

\* ------------------------------------------------------------------ claims

\* C1: an order whose status is Filled or Cancelled never changes status
\* again, in any step of a monitor or of cancel_order.
C1_TerminalStatusIsFinal ==
  [][\A id \in OrderIds :
       orders[id].status \in {"filled", "cancelled"}
         => orders'[id].status = orders[id].status]_vars

\* C2: while an entry order is being submitted, can_open_position has
\* answered true in the same execute_signal call for the order's symbol and
\* amount; a pending target is recorded only by such a call.
C2_EntryOrderIsGated ==
  [][/\ (rt'.func = "place_order" /\ rt'.args.caller \in {"long_entry", "short_entry"})
         => /\ ex'.pc = "placing"
            /\ ex'.gate = "true"
            /\ ex'.symbol = rt'.args.symbol
            /\ ex'.size = rt'.args.amount
     /\ (targets' # targets \/ (nextId' # nextId /\ ex.pc = "placing"
                                  /\ ex.op \in {"long_entry", "short_entry"}))
         => (ex.pc = "placing" /\ ex.gate = "true"
             /\ ex.symbol = rt.args.symbol /\ ex.size = rt.args.amount)]_vars

\* A short entry whose first create_order was refused and is being retried,
\* after can_open_position answered true.
C2_Witness ==
  /\ rt.func = "place_order" /\ rt.state = "running"
  /\ rt.args.caller = "short_entry" /\ rt.calls >= 1
  /\ ex.pc = "placing" /\ ex.gate = "true"

\* C3: a monitor that left its loop with all 10 attempts used and the order
\* still pending has, once it has ended, issued exactly one cancellation.
C3_ExhaustedMonitorCancelsOnce ==
  \A id \in OrderIds :
    (mon[id].pc \in {"done", "crashed"} /\ mon[id].exhausted)
      => monCancels[id] = 1

\* C4: every order the venue accepted has a persisted record and exactly one
\* monitor.
C4_AcceptedOrderIsMonitored ==
  \A id \in OrderIds :
    venue[id] # "none" => (store[id] # NoOrder /\ monStarts[id] = 1)

\* C5: a place_order call whose create_order was rejected for insufficient
\* balance ends by returning an Order with status Failed that has no monitor.
C5_RejectionReturnsFailedOrder ==
  (/\ rt.func = "place_order" /\ rt.accepted = 0
   /\ rt.last = "insufficient" /\ rt.state # "running")
    => /\ rt.state = "returned"
       /\ orders[rt.value].status = "failed"
       /\ monStarts[rt.value] = 0

\* C6: once create_order has failed with a non-retryable error, place_order
\* has invoked it exactly once and has not waited.
C6_NonRetryableAbortsAtOnce ==
  (rt.func = "place_order" /\ rt.rejected)
    => (rt.calls = 1 /\ rt.sleeps = 0 /\ rt.state = "raised")

\* C7: retry_async(max_attempts = N) invokes the function at most N times; a
\* successful attempt ends the call with that attempt's value; N failed
\* attempts end it by raising the last failure.
C7_RetryWithinBudget ==
  rt.func = "generic" =>
    /\ rt.calls <= rt.max_attempts
    /\ rt.state = "running" => rt.calls < rt.max_attempts
    /\ rt.state = "returned" => (rt.last \in Values /\ rt.value = rt.last)
    /\ rt.state = "raised" => (rt.last \in Errors /\ rt.error = rt.last)
    /\ rt.last \in Values => rt.state = "returned"

\* A call with max_attempts = 3 that failed twice and returned the third
\* attempt's value.
C7_Witness ==
  /\ rt.func = "generic" /\ rt.max_attempts = 3
  /\ rt.state = "returned" /\ rt.calls = 3 /\ rt.value = "a"

\* C8: a cancel_order on an unknown id, or whose venue cancel raised or
\* returned False, returns False and changes neither the order nor its
\* record; one that returns True had the venue cancel succeed.
C8_FailedCancelChangesNothing ==
  [][\A id \in OrderIds, v \in {"ok", "false", "raise"}, s \in {"ok", "raise"} :
       CancelOrder(id, v, s) =>
         /\ (orders[id] = NoOrder \/ v # "ok")
              => (~CancelReturn(id, v, s) /\ orders' = orders /\ store' = store)
         /\ CancelReturn(id, v, s)
              => (v = "ok" /\ orders'[id].status = "cancelled")]_vars

\* C9: a cancel_order on an order that a successful cancel_order has left
\* Cancelled, with its record saved, changes neither the order nor the
\* record.
C9_CancelIsIdempotent ==
  [][\A id \in OrderIds, v \in {"ok", "false", "raise"}, s \in {"ok", "raise"} :
       (/\ cancelOk[id] >= 1
        /\ orders[id].status = "cancelled"
        /\ store[id] = orders[id]
        /\ CancelOrder(id, v, s))
         => (orders'[id] = orders[id] /\ store'[id] = store[id])]_vars

\* A second cancel_order has completed on an order that the first one
\* cancelled.
C9_Witness ==
  \E id \in OrderIds :
    cancelOk[id] = 2 /\ orders[id].status = "cancelled" /\ store[id] = orders[id]

\* C10: can_open_position returns true whenever the amount is at most
\* max_position_size, fewer than max_positions positions are open and the
\* margin price * amount / 10 is at most 0.9 of the free balance.
C10_WithinLimitsIsAdmitted ==
  (/\ risk.pc = "done"
   /\ risk.amount <= max_position_size
   /\ risk.count < max_positions
   /\ ~InsufficientMargin(risk.price, risk.amount, risk.balance))
    => risk.result = "true"

\* C11: can_open_position returns true only if the count is below
\* max_positions, the amount at most max_position_size, the day's pnl above
\* -max_daily_loss and the margin at most 0.9 of the balance; it returns
\* false at a pnl of exactly -max_daily_loss and at a count of max_positions,
\* and true at a margin of exactly 0.9 of the balance.
C11_AdmitsOnlyWithinAllLimits ==
  risk.pc = "done" =>
    LET within == /\ risk.count < max_positions
                  /\ risk.amount <= max_position_size
                  /\ risk.pnl > 0 - max_daily_loss
                  /\ ~InsufficientMargin(risk.price, risk.amount, risk.balance)
    IN /\ risk.result = "true" => within
       /\ risk.pnl = 0 - max_daily_loss => risk.result = "false"
       /\ risk.count = max_positions => risk.result = "false"
       /\ (within /\ risk.price * risk.amount = 9 * risk.balance)
            => risk.result = "true"

\* C12: an open_position that can_open_position denies fails with the
\* risk-limit error and changes neither the position map nor the persisted
\* positions; one it approves stores an Open position with the given side,
\* amount and entry price and hands it to save_position.
C12_OpenFollowsTheGate ==
  [][\A sym \in Symbols, side \in {"long", "short"}, amount \in Amounts,
        price \in EntryPrices, gate \in {"true", "false"}, save \in Outcomes :
       OpenPosition(sym, side, amount, price, gate, save) =>
         /\ gate = "false" =>
              /\ OpenResult(gate, save) = "risk_limit"
              /\ positions' = positions /\ posStore' = posStore
         /\ gate = "true" =>
              /\ positions'[sym].status = "open"
              /\ positions'[sym].side = side
              /\ positions'[sym].amount = amount
              /\ positions'[sym].entry_price = price
              /\ save = "ok" => posStore'[sym] = positions'[sym]]_vars

\* An approved open_position has stored and persisted a short position of 2.
C12_Witness ==
  /\ positions["BTC"].status = "open" /\ positions["BTC"].side = "short"
  /\ positions["BTC"].amount = 2 /\ posStore["BTC"] = positions["BTC"]

\* C13: close_position on an Open position sets pnl to (exit - entry) *
\* amount for a long and (entry - exit) * amount for a short, records the
\* exit price, marks the position Closed and hands it to save_position.
C13_ClosePnl ==
  [][\A sym \in Symbols, exit_price \in ClosePrices, save \in Outcomes :
       (positions[sym].status = "open" /\ ClosePosition(sym, exit_price, save)) =>
         /\ positions[sym].side = "long" =>
              positions'[sym].pnl =
                (exit_price - positions[sym].entry_price) * positions[sym].amount
         /\ positions[sym].side = "short" =>
              positions'[sym].pnl =
                (positions[sym].entry_price - exit_price) * positions[sym].amount
         /\ positions'[sym].exit_price = exit_price
         /\ positions'[sym].status = "closed"
         /\ positions'[sym].amount = positions[sym].amount
         /\ positions'[sym].entry_price = positions[sym].entry_price
         /\ save = "ok" => posStore'[sym] = positions'[sym]]_vars

\* A short of 2 entered at 100 was closed at 90 with a pnl of 20, and a long
\* of 2 entered at 100 was closed at 110 with a pnl of 20.
C13_Witness ==
  /\ positions["ETH"].status = "closed" /\ positions["ETH"].side = "short"
  /\ positions["ETH"].amount = 2 /\ positions["ETH"].entry_price = 100
  /\ positions["ETH"].exit_price = 90 /\ positions["ETH"].pnl = 20
  /\ posStore["ETH"] = positions["ETH"]
  /\ positions["BTC"].status = "closed" /\ positions["BTC"].side = "long"
  /\ positions["BTC"].amount = 2 /\ positions["BTC"].exit_price = 110
  /\ positions["BTC"].pnl = 20

\* C14: a close_position on a symbol without an Open position (none, or one
\* already Closed) changes no position and persists nothing.
C14_CloseWithoutOpenPosition ==
  [][\A sym \in Symbols, exit_price \in ClosePrices, save \in Outcomes :
       (positions[sym].status # "open" /\ ClosePosition(sym, exit_price, save))
         => (closeFailed' /\ positions' = positions /\ posStore' = posStore)]_vars

\* A close_position has failed and a position closed at 90 is still as the
\* first close left it.
C14_Witness ==
  /\ closeFailed
  /\ positions["ETH"].status = "closed" /\ positions["ETH"].exit_price = 90
  /\ positions["BTC"] = NoPosition

\* C16: sync_positions gives every symbol that the venue reports with
\* contracts > 0 and that has no local record an Open position with the
\* venue's side, amount and mark price, and creates nothing for the others.
C16_SyncRebuildsVenuePositions ==
  [][\A rep \in VenueLists :
       SyncPositions(rep) =>
         \A s \in Symbols :
           positions[s] = NoPosition =>
             IF s \in OpenOnVenue(rep)
               THEN \E i \in DOMAIN rep :
                      /\ rep[i].symbol = s /\ rep[i].contracts > 0
                      /\ positions'[s] =
                           NewPosition(rep[i].side, rep[i].mark_price, rep[i].contracts)
               ELSE positions'[s] = NoPosition]_vars

\* C17: sync_positions changes no position that is already held, whether
\* the venue reports its symbol or not.
C17_SyncKeepsLocalPositions ==
  [][\A rep \in VenueLists :
       SyncPositions(rep) =>
         /\ \A s \in Symbols :
              positions[s] # NoPosition => positions'[s] = positions[s]
         /\ posStore' = posStore]_vars

\* A sync_positions was told that ETH is open on the venue while an ETH
\* position of 2 is held.
C17_Witness ==
  /\ "ETH" \in syncSeen
  /\ positions["ETH"].status = "open" /\ positions["ETH"].amount = 2

\* C18: with more than one source _aggregate_signals emits a signal for a
\* (symbol, kind) group exactly when group size / source count reaches
\* min_consensus, and never two for the same (symbol, kind).
C18_ConsensusDecidesEmission ==
  (agg.op = "aggregate" /\ agg.sources > 1) =>
    LET size(k) == Cardinality({i \in DOMAIN agg.input : SignalKey(agg.input[i]) = k})
        emitted(k) == \E i \in DOMAIN agg.out : SignalKey(agg.out[i]) = k
    IN /\ \A k \in Symbols \X {"long_entry", "long_exit"} :
            emitted(k) <=> (size(k) > 0 /\ size(k) * 10 >= 6 * agg.sources)
       /\ \A i, j \in DOMAIN agg.out :
            SignalKey(agg.out[i]) = SignalKey(agg.out[j]) => i = j

\* 3 sources: the ETH long-entry group of 2 is emitted, the BTC group of 1
\* is not.
C18_Witness ==
  /\ agg.op = "aggregate" /\ agg.sources = 3 /\ Len(agg.input) = 3
  /\ SignalKey(agg.input[1]) = <<"ETH", "long_entry">>
  /\ SignalKey(agg.input[2]) = <<"BTC", "long_entry">>
  /\ SignalKey(agg.input[3]) = <<"ETH", "long_entry">>
  /\ Len(agg.out) = 1 /\ SignalKey(agg.out[1]) = <<"ETH", "long_entry">>

\* C19: in _filter_signals the filters are called on a signal in
\* registration order and no filter is called on it after one rejected it;
\* a signal survives exactly when every filter of the chain was called and
\* accepted; survivors keep their input order; no_recent_signal holds the
\* timestamp only of signals it was called on and accepted.
C19_FilterChainShortCircuits ==
  agg.op = "filter" =>
    LET nf == Len(agg.filters)
        evals(i) == SelectSeq(agg.log, LAMBDA e : e.signal = i)
        survives(i) == Len(evals(i)) = nf /\ \A j \in 1..nf : evals(i)[j].ok
        idx == {i \in DOMAIN agg.input : survives(i)}
        nth(m) == CHOOSE i \in idx : Cardinality({j \in idx : j < i}) = m - 1
        recorded(k) == {a \in DOMAIN agg.log :
                          /\ agg.log[a].filter = "no_recent_signal"
                          /\ agg.log[a].ok
                          /\ SignalKey(agg.input[agg.log[a].signal]) = k}
    IN /\ \A a, b \in DOMAIN agg.log : a < b => agg.log[a].signal <= agg.log[b].signal
       /\ \A i \in DOMAIN agg.input :
            /\ Len(evals(i)) <= nf
            /\ \A j \in DOMAIN evals(i) :
                 /\ evals(i)[j].filter = agg.filters[j]
                 /\ ~evals(i)[j].ok => j = Len(evals(i))
            /\ Len(evals(i)) < nf =>
                 (Len(evals(i)) > 0 /\ ~evals(i)[Len(evals(i))].ok)
       /\ Len(agg.out) = Cardinality(idx)
       /\ \A m \in DOMAIN agg.out : agg.out[m] = agg.input[nth(m)]
       /\ \A k \in SignalKeys :
            IF recorded(k) = {}
              THEN agg.recent[k] = NoTime
              ELSE \E a \in recorded(k) :
                     /\ \A b \in recorded(k) : b <= a
                     /\ agg.recent[k] = agg.input[agg.log[a].signal].timestamp

\* min_confidence before no_recent_signal: a weak ETH long entry is rejected
\* by the first filter, so the strong one that follows with the same
\* timestamp still passes the second.
C19_Witness ==
  /\ agg.op = "filter"
  /\ agg.filters = <<"min_confidence", "no_recent_signal">>
  /\ Len(agg.input) = 2
  /\ agg.input[1].confidence = 5 /\ agg.input[2].confidence = 9
  /\ SignalKey(agg.input[1]) = SignalKey(agg.input[2])
  /\ agg.input[1].timestamp = agg.input[2].timestamp
  /\ agg.out = <<agg.input[2]>>
  /\ Len(agg.log) = 3

\* C20: an execute_signal call on a signal whose confidence is below
\* min_confidence, whatever its kind, ends with no order in hand and leaves
\* the retry wrapper (no venue call), the orders, their store, the venue,
\* the monitors, the cancellations, the tracked ids, the pending targets and
\* the positions as they were.
C20_LowConfidenceSignalIsIgnored ==
  [][(exSeen'.tick # exSeen.tick /\ exSeen'.sig.confidence < min_confidence)
       => /\ ex' = IdleEx
          /\ UNCHANGED <<rt, orders, nextId, store, venue, mon, monStarts,
                         monCancels, cancelOk, exActive, targets, positions,
                         posStore, opening, history>>]_vars

\* The latest call was a weak long exit for a symbol held long with a
\* pending tracked order: a confident one would cancel it and sell.
C20_Witness ==
  /\ exSeen.sig.signal = "long_exit"
  /\ exSeen.sig.confidence < min_confidence
  /\ positions[exSeen.sig.symbol].status = "open"
  /\ positions[exSeen.sig.symbol].side = "long"
  /\ SymbolOrders(exSeen.sig.symbol) # {}
  /\ ex = IdleEx /\ rt.state = "idle"

\* C21: an execute_signal call with a long or short entry signal for a
\* symbol whose position is Open awaits neither calculate_position_size nor
\* can_open_position, ends with no order in hand and leaves the retry
\* wrapper, the orders, the tracked ids and the pending targets as they were.
C21_EntryOnHeldSymbolIsIgnored ==
  [][(/\ exSeen'.tick # exSeen.tick
      /\ exSeen'.sig.signal \in {"long_entry", "short_entry"}
      /\ positions[exSeen'.sig.symbol].status = "open")
       => /\ exSeen'.calls = <<>>
          /\ ex' = IdleEx
          /\ UNCHANGED <<rt, orders, nextId, store, venue, exActive, targets,
                         positions>>]_vars

\* The latest call was a confident long entry for a symbol held short.
C21_Witness ==
  /\ exSeen.sig.signal = "long_entry"
  /\ exSeen.sig.confidence >= min_confidence
  /\ exSeen.position.status = "open"
  /\ exSeen.position.side = "short"
  /\ exSeen.calls = <<>>
  /\ ex = IdleEx /\ rt.state = "idle"

\* C25: a calculate_position_size call that returns gives
\* balance * position_size_pct / price when that is at most
\* max_position_size and max_position_size otherwise, so never more than
\* max_position_size.
C25_SizeIsCapped ==
  (risk.pc = "sized" /\ ~risk.result.raised) =>
    LET size == risk.result.size
        value == risk.balance * position_size_pct
        per == risk.price * 100
    IN /\ size.num <= max_position_size * size.den
       /\ IF value <= max_position_size * per
            THEN size.num * per = value * size.den
            ELSE size.num = max_position_size * size.den

\* A balance of 400 at a price of 50: the uncapped size 4 is cut to 2.
C25_Witness ==
  /\ risk.pc = "sized" /\ risk.balance = 400 /\ risk.price = 50
  /\ ~risk.result.raised
  /\ risk.result.size = [num |-> max_position_size, den |-> 1]

\* C26: every Order has filled_amount <= amount, whatever quantity the venue
\* reports as filled.
C26_FilledWithinAmount ==
  \A id \in OrderIds :
    orders[id] # NoOrder => orders[id].filled_amount <= orders[id].amount

\* C27: a raising save_order or save_position does not stop the operation:
\* a place_order whose create_order succeeded ends by returning the order,
\* not Failed, with its monitor started and without submitting again; a
\* monitor whose save after the loop raised, with the attempts used up and
\* the order pending, still issues its cancellation.
C27_PersistenceFailureIsNotFatal ==
  /\ (rt.func = "place_order" /\ rt.accepted >= 1)
       => /\ rt.state = "returned"
          /\ rt.accepted = 1
          /\ orders[rt.value].status # "failed"
          /\ monStarts[rt.value] = 1
  /\ \A id \in OrderIds :
       (mon[id].pc = "crashed" /\ mon[id].exhausted) => monCancels[id] = 1

\* C28 as stated: a fetch_order that raised sends the monitor back to the
\* loop head with one more attempt counted and the order untouched, and a
\* monitor leaves its polling loop only on a closed or cancelled answer or
\* with all attempts used.
C28_MonitorStopsOnlyOnObservation ==
  [][\A id \in OrderIds :
       /\ (mon[id].pc = "fetch" /\ mon[id].resp.status = "error"
             /\ mon'[id] # mon[id])
            => /\ mon'[id].pc = "loop"
               /\ mon'[id].attempt = mon[id].attempt + 1
               /\ orders'[id] = orders[id]
       /\ (mon[id].pc \in {"loop", "fetch"} /\ mon'[id].pc \notin {"loop", "fetch"})
            => \/ mon[id].pc = "fetch" /\ mon[id].resp.status \in {"closed", "cancelled"}
               \/ mon[id].attempt >= MonitorMaxAttempts]_vars

\* C28, amended: a fetch_order that raised sends the monitor back to the
\* loop head with one more attempt counted and the order untouched, and a
\* monitor leaves its polling loop only on a closed or cancelled answer,
\* with all attempts used, or once cancel_order has set the order Cancelled.
C28_MonitorSurvivesFaults ==
  [][\A id \in OrderIds :
       /\ (mon[id].pc = "fetch" /\ mon[id].resp.status = "error"
             /\ mon'[id] # mon[id])
            => /\ mon'[id].pc = "loop"
               /\ mon'[id].attempt = mon[id].attempt + 1
               /\ orders'[id] = orders[id]
       /\ (mon[id].pc \in {"loop", "fetch"} /\ mon'[id].pc \notin {"loop", "fetch"})
            => \/ mon[id].pc = "fetch" /\ mon[id].resp.status \in {"closed", "cancelled"}
               \/ mon[id].attempt >= MonitorMaxAttempts
               \/ mon[id].pc = "loop" /\ orders[id].status = "cancelled"]_vars

\* A monitor one of whose polls raised went on and later saw the order
\* closed.
C28_Witness ==
  \E id \in OrderIds :
    /\ mon[id].faulted /\ mon[id].pc = "done"
    /\ mon[id].fetches >= 2
    /\ orders[id].status = "filled"

\* C30: a monitor issues at most 10 fetch_order requests; resuming from a
\* closed answer it sets Filled with the venue's filled amount and average
\* price, from a cancelled answer Cancelled, and from any other answer or a
\* failure it leaves the order as it is; every started monitor ends.
C30_MonitorIsBounded ==
  /\ [](\A id \in OrderIds : mon[id].fetches <= MonitorMaxAttempts)
  /\ [][\A id \in OrderIds :
          (mon[id].pc = "fetch" /\ mon'[id] # mon[id]) =>
            IF mon[id].resp.status = "closed"
              THEN /\ orders'[id].status = "filled"
                   /\ orders'[id].filled_amount = mon[id].resp.filled
                   /\ orders'[id].average_price = mon[id].resp.average
            ELSE IF mon[id].resp.status = "cancelled"
              THEN orders'[id].status = "cancelled"
            ELSE orders'[id] = orders[id]]_vars
  /\ \A id \in OrderIds :
       (mon[id].pc = "loop") ~> (mon[id].pc \in {"done", "crashed"})

\* A monitor that has issued its 10 requests, none with a final answer, and
\* has ended.
C30_Witness ==
  \E id \in OrderIds :
    /\ mon[id].fetches = MonitorMaxAttempts
    /\ mon[id].exhausted /\ mon[id].pc = "done"

\* C29: a cancel_order call made by cancel_all_orders is for a tracked
\* order that is still Pending; none is made for an order that is Filled,
\* Cancelled or Failed.
C29_CancelAllSkipsTerminalOrders ==
  [][(ex.pc = "cancelling" /\ ex.op = "cancel_all" /\ ex' # ex)
       => /\ Least(ex.queue) \in exActive
          /\ orders[Least(ex.queue)].status = "pending"]_vars

\* C22: an exit handler that finds an Open position of its side asks
\* cancel_order for every tracked Pending order of the symbol, one by one,
\* and only then calls place_order, with the opposite side and the
\* position's amount; an exit signal that finds no such position cancels
\* nothing and places nothing.
C22_ExitCancelsThenPlaces ==
  [][LET exits == {"long_exit", "short_exit"}
         want(op) == IF op = "long_exit" THEN "long" ELSE "short"
         held(op, sym) == /\ positions[sym].status = "open"
                          /\ positions[sym].side = want(op)
         pending(sym) == {id \in exActive : /\ orders[id].symbol = sym
                                            /\ orders[id].status = "pending"}
     IN /\ (ex'.pc = "placing" /\ ex'.op \in exits /\ ex.pc # "placing")
             => /\ held(ex'.op, ex'.symbol)
                /\ rt'.func = "place_order" /\ rt'.state = "running"
                /\ rt'.args.symbol = ex'.symbol
                /\ rt'.args.side = (IF ex'.op = "long_exit" THEN "sell" ELSE "buy")
                /\ rt'.args.amount = positions[ex'.symbol].amount
                /\ \/ ex.pc = "idle" /\ pending(ex'.symbol) = {}
                   \/ /\ ex.pc = "cancelling" /\ ex.op = ex'.op
                      /\ ex.symbol = ex'.symbol
                      /\ Cardinality(ex.queue) = 1
        /\ (ex'.pc = "cancelling" /\ ex'.op \in exits /\ ex.pc = "idle")
             => /\ held(ex'.op, ex'.symbol)
                /\ ex'.queue = pending(ex'.symbol)
                /\ UNCHANGED <<rt, orders, venue>>
        /\ (ex.pc = "cancelling" /\ ex.op \in exits /\ ex' # ex)
             => /\ \/ ex'.pc = "placing"
                   \/ ex'.pc = "cancelling" /\ ex'.queue = ex.queue \ {Least(ex.queue)}
                /\ \A id \in OrderIds \ {Least(ex.queue)} : orders'[id] = orders[id]
        /\ (/\ exSeen'.tick # exSeen.tick
            /\ exSeen'.sig.signal \in exits
            /\ ~held(exSeen'.sig.signal, exSeen'.sig.symbol))
             => /\ ex' = IdleEx
                /\ UNCHANGED <<rt, orders, nextId, store, venue, cancelOk,
                               exActive, targets>>]_vars

\* A long exit whose sell order is being submitted after the symbol's
\* tracked pending order was cancelled.
C22_Witness ==
  /\ ex.pc = "placing" /\ ex.op = "long_exit"
  /\ rt.state = "running" /\ rt.args.side = "sell"
  /\ \E id \in exActive :
       orders[id].symbol = ex.symbol /\ orders[id].status = "cancelled"

\* C23: stop() takes its steps in this order: the streams are stopped, the
\* tracked orders are cancelled, the flatten orders are placed, the settle
\* window is waited, open positions are reported; no flatten order is
\* placed before cancel_all_orders has been called.
C23_ShutdownOrder ==
  LET Rank(x) == CASE x = "stop_streams" -> 1
                   [] x = "cancel_orders" -> 2
                   [] x = "flatten" -> 3
                   [] x = "settle" -> 4
                   [] x = "warn" -> 5
                   [] OTHER -> 6
  IN /\ \A i, j \in DOMAIN bot.log :
          i < j => Rank(bot.log[i]) <= Rank(bot.log[j])
     /\ \A j \in DOMAIN bot.log :
          bot.log[j] = "flatten" =>
            \E i \in 1..(j - 1) : bot.log[i] = "cancel_orders"

\* C24: once stop() has disconnected the venue no order monitor is still
\* running, so none can issue a venue call.
C24_NoMonitorAfterDisconnect ==
  ~bot.connected =>
    \A id \in OrderIds : mon[id].pc \in {"none", "done", "crashed"}

\* C31: close_all_positions places a closing order for every Open position:
\* a failure to place one closing order does not keep the positions after it
\* in the list from getting theirs, so once close_all_positions has ended
\* no position of its list is left without a place_order call.
C31_FlattenCoversEveryPosition ==
  bot.pc \notin {"running", "closing", "flattening"} => bot.left = {}

C33_OneSubmissionPerCall ==
  rt.func = "place_order" =>
    /\ rt.accepted <= 1
    /\ rt.state = "raised" => rt.accepted = 0
    /\ rt.state = "returned" => rt.accepted = 1

\* C34: for every symbol at most one tracked entry order is Pending at any
\* time, and the recorded pending target is the one of that order: an entry
\* signal arriving while the symbol's entry order is Pending places nothing.
C34_OnePendingEntryPerSymbol ==
  \A sym \in Symbols :
    LET pending == {id \in exActive : /\ orders[id].symbol = sym
                                      /\ orders[id].status = "pending"}
    IN /\ Cardinality(pending) <= 1
       /\ \A id \in pending : targets[sym].entry_order_id = id

\* C35: position bookkeeping follows a fill: once a tracked entry order is
\* Filled, an Open position for its symbol, on the side of the recorded
\* target, eventually exists in PositionManager.
C35_FillOpensPosition ==
  \A id \in OrderIds, sym \in Symbols :
    (id \in exActive /\ orders[id].status = "filled" /\ orders[id].symbol = sym)
      ~> (/\ positions[sym].status = "open"
          /\ positions[sym].side = targets[sym].side)


\* C36: between position operations the Open positions the RiskManager
\* counts (the persisted records with status open) are the Open positions
\* PositionManager holds in memory.
C36_StoreMatchesMemory ==
  {s \in Symbols : posStore[s].status = "open"} = OpenSymbols

\* C37: no order is left unresolved: once the monitor of an order the venue
\* accepted has ended, the order's status in OrderManager is Filled,
\* Cancelled or Failed, whatever the venue answered, a failing cancellation
\* included.
C37_MonitoredOrderEndsTerminal ==
  \A id \in OrderIds :
    (venue[id] # "none" /\ mon[id].pc \in {"done", "crashed"})
      => orders[id].status \in {"filled", "cancelled", "failed"}

\* C38: every signal the aggregator emits has a confidence in [0, 1] and a
\* consensus of at most 1, the members' confidences being in [0, 1]: in
\* tenths, avg_confidence * consensus = conf_sum / sources is at most 10 and
\* the group is no larger than the number of sources.
C38_EmittedConfidenceInRange ==
  agg.op = "aggregate" =>
    \A i \in DOMAIN agg.out :
      IF agg.sources = 1
        THEN agg.out[i].confidence \in 0..10
        ELSE /\ agg.out[i].strategies_count <= agg.sources
             /\ agg.out[i].conf_sum <= 10 * agg.sources

\* C39: after a sync_positions call every symbol the venue reported open
\* with contracts > 0 has an Open local position, also when only a Closed
\* record was held for it before, and a second call on the same report
\* would change nothing.
C39_SyncCoversVenuePositions ==
  [][\A rep \in VenueLists :
       SyncPositions(rep) =>
         /\ \A s \in OpenOnVenue(rep) : positions'[s].status = "open"
         /\ SyncLoop(positions', rep) = positions']_vars

\* C40: after any sequence of add_signal calls the buffer holds the most
\* recent min(k, capacity) records, stats.total_signals is the buffer's
\* length, and stats.win_rate is profitable / executed over the buffer's
\* executed records, 0 when the buffer holds none.
C40_HistoryStatsFollowBuffer ==
  LET k == Len(history.added)
      n == IF k < max_history THEN k ELSE max_history
      buf == history.signals
      executed == {i \in DOMAIN buf : buf[i].executed}
      wins == {i \in executed : buf[i].profitable = "true"}
      rate == history.stats.win_rate
  IN /\ buf = SubSeq(history.added, k - n + 1, k)
     /\ history.stats.total_signals = Len(buf)
     /\ IF executed = {} THEN rate.num = 0
        ELSE rate.num * Cardinality(executed) = Cardinality(wins) * rate.den

====
